---- MODULE Spec2Model ----
(***************************************************************************)
(* FileStore (github.com/go-bumbu/jsonstore): an in-memory tree            *)
(* collection -> key -> raw JSON, optionally mirrored to one JSON file.    *)
(*                                                                         *)
(* Strings that the code orders (document keys, object member names) are   *)
(* sequences of character codes, so that sort.Strings and the key order of *)
(* json.Marshal are computed, not assumed.  Collection names are only      *)
(* compared for equality and stay TLA+ strings.                            *)
(*                                                                         *)
(* A raw JSON value is a record [kind, ws, m]: kind "obj" is a JSON object *)
(* text whose member names are written in the order m and which contains   *)
(* insignificant white space iff ws; kind "nil" is the zero RawMessage,    *)
(* kind "untouched" marks an output parameter the call did not assign.     *)
(* The backing file is modelled by the JSON text's structure: either zero  *)
(* bytes, or an object collection -> key -> raw member text; the           *)
(* indentation chosen by humanReadable is not part of that structure.      *)
(* Values are valid JSON (FileStore.Json panics on any other RawMessage).  *)
(*                                                                         *)
(* A call is one atomic step.  A call that panics is a call with outcome   *)
(* err = "panic", the tree being as the panic left it (deferred unlocks    *)
(* run, and net/http recovers a handler's panic).  The outcomes of         *)
(* os.WriteFile and os.Open are inputs of the calls; properties about a    *)
(* call that is meant to succeed are stated for the outcome "ok".          *)
(***************************************************************************)
EXTENDS Integers, Sequences, FiniteSets, TLC

VARIABLES
    content,      \* FileStore.content
    inMemory,     \* FileStore.inMemory
    ManualFlush,  \* FileStore.ManualFlush
    file,         \* the bytes of the file at FileStore.file
    last,         \* the last call: its arguments, injected I/O outcome and results
    everSet,      \* the collection names passed to Set so far
    wrFailed,     \* whether some os.WriteFile of the engine has failed so far
    nops,         \* number of calls made so far
    th,           \* the goroutines calling the engine: position and locals of each
    mutex,        \* FileStore.mutex
    fatal,        \* the Go runtime has stopped the process (fatal error)
    contentB,     \* the content of a second FileStore constructed on the same file
    rows,         \* the table of dbDocument rows of a DbStore
    mock,         \* MockStorer.Data
    peer,         \* what the DbStore and the MockStorer returned to the last call
    http          \* the last HTTP request and the handlers' responses to it

vars == <<content, inMemory, ManualFlush, file, last, everSet, wrFailed, nops,
          th, mutex, fatal, contentB, rows, mock, peer, http>>

----------------------------------------------------------------------------
(* Bounds of the exploration *)

MaxOps == 3          \* calls per behaviour of Spec
MaxListOps == 5      \* calls per behaviour of SpecList
MaxTwoOps == 3       \* calls per behaviour of SpecTwo
MaxBothOps == 3      \* calls per behaviour of SpecStorers
MaxHttpOps == 3      \* requests per behaviour of SpecHttp
NumThreads == 2      \* goroutines of SpecConc, each making one call

(* Program constants *)

MaxListItems == 20
DefaultCollection == "default"
InMemoryDb == "memory"

----------------------------------------------------------------------------
(* Input domains *)

\* "item1", "item10", "item2", "item3": the digits after the common prefix
K1 == <<1>>
K10 == <<1, 0>>
K2 == <<2>>
K3 == <<3>>

Keys == {K1, K2}
ListKeys == {K1, K10, K2, K3}

Collections == {"", DefaultCollection, "colA"}

\* {"a":1}  -- already in the form json.Marshal produces
VCanon == [kind |-> "obj", ws |-> FALSE, m |-> <<1>>]
\* {"b": 2, "a": 1}  -- white space and members not in sorted order
VLoose == [kind |-> "obj", ws |-> TRUE, m |-> <<2, 1>>]
\* {"a":1,"b":2}
VSorted == [kind |-> "obj", ws |-> FALSE, m |-> <<1, 2>>]

Values == {VCanon, VLoose}

Nil == [kind |-> "nil", ws |-> FALSE, m |-> <<>>]
Untouched == [kind |-> "untouched", ws |-> FALSE, m |-> <<>>]

Limits == {0, 2}
Pages == {1, 2}

ListCollections == {"colA"}
ListLimits == {-1, 0, 2, MaxListItems + 1}
ListPages == {-1, 0, 1, 2, 3}

----------------------------------------------------------------------------
(* Maps *)

EmptyMap == [x \in {} |-> x]

MapSet(mp, k, v) == [x \in (DOMAIN mp) \cup {k} |-> IF x = k THEN v ELSE mp[x]]

MapDelete(mp, k) == [x \in (DOMAIN mp) \ {k} |-> mp[x]]

----------------------------------------------------------------------------
(* Byte-wise string order, as used by sort.Strings and by json.Marshal for  *)
(* the keys of a map *)

StrLess(a, b) ==
    \E i \in 1..Len(b) :
        /\ \A j \in 1..(i - 1) : j <= Len(a) /\ a[j] = b[j]
        /\ (i > Len(a) \/ a[i] < b[i])

RECURSIVE SortStrings(_)
SortStrings(S) ==
    IF S = {} THEN <<>>
    ELSE LET lo == CHOOSE x \in S : \A y \in S : x = y \/ StrLess(x, y)
         IN  <<lo>> \o SortStrings(S \ {lo})

----------------------------------------------------------------------------
(* encoding/json on raw values *)

\* RawMessage.MarshalJSON followed by the encoder's compact(): white space
\* is removed, the member order is kept.
Compact(v) == [v EXCEPT !.ws = FALSE]

\* json.Unmarshal into `any`: an object becomes an unordered map
Unmarshal(v) == {<<v.m[i]>> : i \in DOMAIN v.m}

\* json.Marshal of a decoded map: members in sorted key order, no white space
Marshal(d) ==
    LET s == SortStrings(d)
    IN  [kind |-> "obj", ws |-> FALSE, m |-> [i \in DOMAIN s |-> s[i][1]]]

----------------------------------------------------------------------------
(* The backing file *)

EmptyFile == [kind |-> "empty", tree |-> EmptyMap]

TreeFile(t) == [kind |-> "tree", tree |-> t]

\* os.WriteFile: succeeds; fails before touching the file (open error);
\* or fails after O_TRUNC emptied it (write error)
WriteOutcomes == {"ok", "fail", "trunc"}

\* os.Open / io.ReadAll
ReadOutcomes == {"ok", "fail"}

----------------------------------------------------------------------------
(* FileStore *)

colExists(tree, name) == name \in DOMAIN tree

\* json.Marshal / json.MarshalIndent of f.content: every raw value passes
\* through the encoder's compact()
Json(tree) ==
    [c \in DOMAIN tree |-> [k \in DOMAIN tree[c] |-> Compact(tree[c][k])]]

\* returns the new file and the error
flushToFile(tree, fl, wr) ==
    CASE wr = "ok"    -> [file |-> TreeFile(Json(tree)), err |-> "nil"]
      [] wr = "trunc" -> [file |-> EmptyFile, err |-> "io"]
      [] OTHER        -> [file |-> fl, err |-> "io"]

\* Variant of Flush that only looks at ManualFlush
FlushIgnoresInMemory(tree, fl, inMem, manual, wr) ==
    IF ~manual
    THEN flushToFile(tree, fl, wr)
    ELSE [file |-> fl, err |-> "nil"]

Flush(tree, fl, inMem, manual, wr) ==
    IF ~inMem /\ ~manual
    THEN flushToFile(tree, fl, wr)
    ELSE [file |-> fl, err |-> "nil"]

\* Variant of Set that takes the value back when the file write fails
SetRollsBack(tree, fl, inMem, manual, collection, key, value, wr) ==
    LET t1 == IF ~colExists(tree, collection)
              THEN MapSet(tree, collection, EmptyMap)
              ELSE tree
        t2 == [t1 EXCEPT ![collection] = MapSet(t1[collection], key, value)]
    IN  IF ~inMem /\ ~manual
        THEN LET w == flushToFile(t2, fl, wr)
             IN  [content |-> IF w.err = "nil" THEN t2 ELSE tree,
                  file |-> w.file, err |-> w.err]
        ELSE [content |-> t2, file |-> fl, err |-> "nil"]

\* Variant of Set that flushes whenever the engine is file-backed
SetIgnoresManualFlush(tree, fl, inMem, manual, collection, key, value, wr) ==
    LET t1 == IF ~colExists(tree, collection)
              THEN MapSet(tree, collection, EmptyMap)
              ELSE tree
        t2 == [t1 EXCEPT ![collection] = MapSet(t1[collection], key, value)]
    IN  IF ~inMem
        THEN LET w == flushToFile(t2, fl, wr)
             IN  [content |-> t2, file |-> w.file, err |-> w.err]
        ELSE [content |-> t2, file |-> fl, err |-> "nil"]

\* Variant of Set that writes the file before it stores the value
SetFlushFirst(tree, fl, inMem, manual, collection, key, value, wr) ==
    LET t1 == IF ~colExists(tree, collection)
              THEN MapSet(tree, collection, EmptyMap)
              ELSE tree
        t2 == [t1 EXCEPT ![collection] = MapSet(t1[collection], key, value)]
    IN  IF ~inMem /\ ~manual
        THEN LET w == flushToFile(t1, fl, wr)
             IN  [content |-> t2, file |-> w.file, err |-> w.err]
        ELSE [content |-> t2, file |-> fl, err |-> "nil"]

Set(tree, fl, inMem, manual, collection, key, value, wr) ==
    LET t1 == IF ~colExists(tree, collection)
              THEN MapSet(tree, collection, EmptyMap)
              ELSE tree
        t2 == [t1 EXCEPT ![collection] = MapSet(t1[collection], key, value)]
    IN  IF ~inMem /\ ~manual
        THEN LET w == flushToFile(t2, fl, wr)
             IN  [content |-> t2, file |-> w.file, err |-> w.err]
        ELSE [content |-> t2, file |-> fl, err |-> "nil"]

\* The collections of the file whose entries readFile cannot store: the
\* assignment f.content[collection][k] = raw writes to a nil map
Unstorable(tree, ftree) ==
    {c \in DOMAIN ftree : ~colExists(tree, c) /\ DOMAIN ftree[c] # {}}

\* The loop of readFile over the collections `visited` of the file
MergeFile(tree, ftree, visited) ==
    [c \in DOMAIN tree |->
        IF c \in visited
        THEN [k \in (DOMAIN tree[c]) \cup (DOMAIN ftree[c]) |->
                IF k \in DOMAIN ftree[c]
                THEN Marshal(Unmarshal(ftree[c][k]))
                ELSE tree[c][k]]
        ELSE tree[c]]

\* `visited`: the collections the map iteration reached before the first
\* unstorable one (Go iterates maps in an unspecified order); it is only
\* read when the loop panics.
readFile(tree, fl, rd, visited) ==
    CASE rd = "fail"       -> [content |-> tree, err |-> "io"]
      [] fl.kind = "empty" -> [content |-> tree, err |-> "io"]
      [] Unstorable(tree, fl.tree) # {} ->
            [content |-> MergeFile(tree, fl.tree, visited), err |-> "panic"]
      [] OTHER ->
            [content |-> MergeFile(tree, fl.tree, DOMAIN fl.tree), err |-> "nil"]

Lookup(tree, collection, key) ==
    IF key \in DOMAIN tree[collection] THEN tree[collection][key] ELSE Nil

\* Variant of Get without the colExists guard: a missing collection is
\* read like a missing key
GetNoColCheck(tree, fl, inMem, collection, key, rd, visited) ==
    LET r == IF ~inMem
             THEN readFile(tree, fl, rd, visited)
             ELSE [content |-> tree, err |-> "nil"]
    IN  IF r.err # "nil"
        THEN [content |-> r.content, err |-> r.err, value |-> Untouched]
        ELSE [content |-> r.content, err |-> "nil",
              value |-> IF colExists(r.content, collection)
                        THEN Lookup(r.content, collection, key)
                        ELSE Nil]

\* Variant of Get that assigns the output before it looks at the error, as
\* DbStore.Get does: a failed Get leaves the zero value in it
GetZeroesOnError(tree, fl, inMem, collection, key, rd, visited) ==
    IF ~colExists(tree, collection)
    THEN [content |-> tree, err |-> "CollectionNotFound", value |-> Nil]
    ELSE LET r == IF ~inMem
                  THEN readFile(tree, fl, rd, visited)
                  ELSE [content |-> tree, err |-> "nil"]
         IN  IF r.err # "nil"
             THEN [content |-> r.content, err |-> r.err, value |-> Nil]
             ELSE [content |-> r.content, err |-> "nil",
                   value |-> Lookup(r.content, collection, key)]

Get(tree, fl, inMem, collection, key, rd, visited) ==
    IF ~colExists(tree, collection)
    THEN [content |-> tree, err |-> "CollectionNotFound", value |-> Untouched]
    ELSE LET r == IF ~inMem
                  THEN readFile(tree, fl, rd, visited)
                  ELSE [content |-> tree, err |-> "nil"]
         IN  IF r.err # "nil"
             THEN [content |-> r.content, err |-> r.err, value |-> Untouched]
             ELSE [content |-> r.content, err |-> "nil",
                   value |-> Lookup(r.content, collection, key)]

\* Variant of Delete that never writes the file
DeleteNoFlush(tree, fl, inMem, manual, collection, key, wr) ==
    IF ~colExists(tree, collection)
    THEN [content |-> tree, file |-> fl, err |-> "CollectionNotFound",
          deleted |-> FALSE]
    ELSE LET entryDeleted == key \in DOMAIN tree[collection]
         IN  [content |-> IF entryDeleted
                          THEN [tree EXCEPT ![collection] =
                                    MapDelete(tree[collection], key)]
                          ELSE tree,
              file |-> fl, err |-> "nil", deleted |-> entryDeleted]

\* Variant of Delete that reports a removal whether or not the key was there
DeleteAlwaysTrue(tree, fl, inMem, manual, collection, key, wr) ==
    IF ~colExists(tree, collection)
    THEN [content |-> tree, file |-> fl, err |-> "CollectionNotFound",
          deleted |-> FALSE]
    ELSE LET t1 == [tree EXCEPT ![collection] = MapDelete(tree[collection], key)]
         IN  IF ~inMem /\ ~manual
             THEN LET w == flushToFile(t1, fl, wr)
                  IN  [content |-> t1, file |-> w.file, err |-> w.err,
                       deleted |-> TRUE]
             ELSE [content |-> t1, file |-> fl, err |-> "nil", deleted |-> TRUE]

Delete(tree, fl, inMem, manual, collection, key, wr) ==
    IF ~colExists(tree, collection)
    THEN [content |-> tree, file |-> fl, err |-> "CollectionNotFound",
          deleted |-> FALSE]
    ELSE LET entryDeleted == key \in DOMAIN tree[collection]
             t1 == IF entryDeleted
                   THEN [tree EXCEPT ![collection] = MapDelete(tree[collection], key)]
                   ELSE tree
         IN  IF ~inMem /\ ~manual
             THEN LET w == flushToFile(t1, fl, wr)
                  IN  [content |-> t1, file |-> w.file, err |-> w.err,
                       deleted |-> entryDeleted]
             ELSE [content |-> t1, file |-> fl, err |-> "nil",
                   deleted |-> entryDeleted]

\* limit and page as List uses them
ClampLimit(limit) == IF limit = 0 \/ limit > MaxListItems THEN MaxListItems ELSE limit

ClampPage(page) == IF page < 1 THEN 1 ELSE page

ListCollection(collection) == IF collection = "" THEN DefaultCollection ELSE collection

NoItems == EmptyMap

\* Variant of List that counts pages from 0: offset = page * limit
ListPageFromZero(tree, collection0, limit0, page0) ==
    LET collection == ListCollection(collection0)
    IN  IF ~colExists(tree, collection)
        THEN [err |-> "CollectionNotFound", items |-> NoItems, total |-> 0]
        ELSE
        LET collen == Cardinality(DOMAIN tree[collection])
            limit  == ClampLimit(limit0)
            page   == ClampPage(page0)
            offset == page * limit
            keys   == SortStrings(DOMAIN tree[collection])
            end    == IF offset + limit > Len(keys) THEN Len(keys) ELSE offset + limit
        IN  IF offset < 0 \/ offset > end
            THEN [err |-> "panic", items |-> NoItems, total |-> 0]
            ELSE [err |-> "nil",
                  items |-> [k \in {keys[i] : i \in (offset + 1)..end} |->
                                tree[collection][k]],
                  total |-> collen]

List(tree, collection0, limit0, page0) ==
    LET collection == ListCollection(collection0)
    IN  IF ~colExists(tree, collection)
        THEN [err |-> "CollectionNotFound", items |-> NoItems, total |-> 0]
        ELSE
        LET collen == Cardinality(DOMAIN tree[collection])
            limit  == ClampLimit(limit0)
            page   == ClampPage(page0)
            offset == (page - 1) * limit
            keys   == SortStrings(DOMAIN tree[collection])
            end    == IF offset + limit > Len(keys) THEN Len(keys) ELSE offset + limit
        IN  \* keys[offset:end] panics unless 0 <= offset <= end <= cap(keys)
            IF offset < 0 \/ offset > end
            THEN [err |-> "panic", items |-> NoItems, total |-> 0]
            ELSE [err |-> "nil",
                  items |-> [k \in {keys[i] : i \in (offset + 1)..end} |->
                                tree[collection][k]],
                  total |-> collen]

----------------------------------------------------------------------------
(* Construction *)

FilePath == "store.json"

Paths == {InMemoryDb, "", FilePath}

isFlagSet(flags, search) == search \in flags

NewFileStore(path, flags) ==
    [content     |-> EmptyMap,
     inMemory    |-> ~(path # "" /\ path # InMemoryDb),
     ManualFlush |-> isFlagSet(flags, "ManualFlush")]

\* What the file at FilePath may hold when the engine is constructed:
\* os.OpenFile(O_APPEND|O_CREATE) creates it empty or keeps what an earlier
\* run of the program flushed there.
PreTree == [c \in {"colA"} |-> [k \in {K1} |-> Compact(VLoose)]]

InitFiles == {EmptyFile, TreeFile(PreTree)}

\* eng: the engine called, "A" (content) or "B" (contentB)
NoCall ==
    [eng |-> "A",
     op |-> "none", c |-> "", k |-> <<>>, v |-> Nil, limit |-> 0, page |-> 0,
     wr |-> "ok", rd |-> "ok", existed |-> FALSE, had |-> FALSE,
     err |-> "nil", out |-> Untouched, deleted |-> FALSE,
     items |-> NoItems, total |-> 0]

\* The goroutines that call the engine
Threads == 1..NumThreads

\* A goroutine that has not called yet.  data and todo are the locals of
\* readFile: the decoded file and the collections its loop has yet to visit;
\* rd is the outcome of its os.Open.
IdleThread ==
    [pc |-> "idle", op |-> "none", c |-> "", k |-> <<>>, v |-> Nil, rd |-> "ok",
     err |-> "nil", out |-> Untouched, deleted |-> FALSE,
     items |-> NoItems, total |-> 0, data |-> EmptyMap, todo |-> {}]

\* The zero sync.RWMutex: no writer holds it, none waits, no reader holds it
FreeMutex == [writer |-> {}, pending |-> {}, readers |-> {}]

NoThreads ==
    /\ th = [t \in Threads |-> IdleThread]
    /\ mutex = FreeMutex
    /\ fatal = FALSE

\* What a Storer returns: the error, the value Get assigned, the flag of
\* Delete, the page and the total of List
NoOutcome ==
    [err |-> "nil", out |-> Untouched, deleted |-> FALSE,
     items |-> NoItems, total |-> 0]

\* A response not written: no status code, no body
NoResponse == [code |-> 0, body |-> [kind |-> "none"]]

\* A query parameter that is not a number (strconv.Atoi fails on "")
NoParam == [ok |-> FALSE, n |-> 0]

\* No request served yet
NoRequest ==
    [method |-> "none", path |-> [segs |-> <<>>, slash |-> FALSE],
     body |-> Nil, limit |-> NoParam, page |-> NoParam, route |-> "none",
     file |-> NoResponse, db |-> NoResponse, mock |-> NoResponse]

\* No second engine, no other Storer, no handler yet
NoPeers ==
    /\ contentB = EmptyMap
    /\ rows = EmptyMap
    /\ mock = EmptyMap
    /\ peer = [db |-> NoOutcome, mock |-> NoOutcome]
    /\ http = NoRequest

Init ==
    \E path \in Paths, flags \in SUBSET {"ManualFlush"} :
        LET db == NewFileStore(path, flags)
        IN  /\ content = db.content
            /\ inMemory = db.inMemory
            /\ ManualFlush = db.ManualFlush
            /\ file \in (IF db.inMemory THEN {EmptyFile} ELSE InitFiles)
            /\ last = NoCall
            /\ everSet = {}
            /\ wrFailed = FALSE
            /\ nops = 0
            /\ NoThreads
            /\ NoPeers

----------------------------------------------------------------------------
(* Calls.  Each is one whole method of FileStore; `last` records the call.  *)
(* existed / had: whether the collection / the key was in content before.   *)

WriteChoices == IF ~inMemory /\ ~ManualFlush THEN WriteOutcomes ELSE {"ok"}

ReadChoices == IF ~inMemory THEN ReadOutcomes ELSE {"ok"}

VisitChoices ==
    IF ~inMemory /\ file.kind = "tree" /\ Unstorable(content, file.tree) # {}
    THEN SUBSET ((DOMAIN file.tree) \ Unstorable(content, file.tree))
    ELSE {{}}

HadIn(tree, c, k) == colExists(tree, c) /\ k \in DOMAIN tree[c]

Had(c, k) == HadIn(content, c, k)

CallSet(Cs, Ks, Vs, Ws) ==
    \E c \in Cs, k \in Ks, v \in Vs, wr \in Ws :
        LET r == Set(content, file, inMemory, ManualFlush, c, k, v, wr)
        IN  /\ content' = r.content
            /\ file' = r.file
            /\ last' = [NoCall EXCEPT !.op = "Set", !.c = c, !.k = k, !.v = v,
                            !.wr = wr, !.existed = colExists(content, c),
                            !.had = Had(c, k), !.err = r.err]
            /\ everSet' = everSet \cup {c}
            /\ wrFailed' = (wrFailed \/ r.err = "io")

CallGet(Cs, Ks) ==
    \E c \in Cs, k \in Ks, rd \in ReadChoices, visited \in VisitChoices :
        LET r == Get(content, file, inMemory, c, k, rd, visited)
        IN  /\ content' = r.content
            /\ file' = file
            /\ last' = [NoCall EXCEPT !.op = "Get", !.c = c, !.k = k, !.rd = rd,
                            !.existed = colExists(content, c),
                            !.had = Had(c, k), !.err = r.err, !.out = r.value]
            /\ UNCHANGED <<everSet, wrFailed>>

CallDelete(Cs, Ks, Ws) ==
    \E c \in Cs, k \in Ks, wr \in Ws :
        LET r == Delete(content, file, inMemory, ManualFlush, c, k, wr)
        IN  /\ content' = r.content
            /\ file' = r.file
            /\ last' = [NoCall EXCEPT !.op = "Delete", !.c = c, !.k = k,
                            !.wr = wr, !.existed = colExists(content, c),
                            !.had = Had(c, k), !.err = r.err,
                            !.deleted = r.deleted]
            /\ wrFailed' = (wrFailed \/ r.err = "io")
            /\ UNCHANGED everSet

\* Variant of CallList that reloads the file before listing, as Get does
CallListReloading(Cs, Ls, Ps) ==
    \E c \in Cs, limit \in Ls, page \in Ps :
        LET m == IF /\ ~inMemory /\ file.kind = "tree"
                    /\ Unstorable(content, file.tree) = {}
                 THEN readFile(content, file, "ok", {}).content
                 ELSE content
            r == List(m, c, limit, page)
        IN  /\ content' = m
            /\ file' = file
            /\ last' = [NoCall EXCEPT !.op = "List", !.c = c, !.limit = limit,
                            !.page = page,
                            !.existed = colExists(content, ListCollection(c)),
                            !.err = r.err, !.items = r.items, !.total = r.total]
            /\ UNCHANGED <<everSet, wrFailed>>

CallList(Cs, Ls, Ps) ==
    \E c \in Cs, limit \in Ls, page \in Ps :
        LET r == List(content, c, limit, page)
        IN  /\ content' = content
            /\ file' = file
            /\ last' = [NoCall EXCEPT !.op = "List", !.c = c, !.limit = limit,
                            !.page = page,
                            !.existed = colExists(content, ListCollection(c)),
                            !.err = r.err, !.items = r.items, !.total = r.total]
            /\ UNCHANGED <<everSet, wrFailed>>

CallFlush(Ws) ==
    \E wr \in Ws :
        LET r == Flush(content, file, inMemory, ManualFlush, wr)
        IN  /\ content' = content
            /\ file' = r.file
            /\ last' = [NoCall EXCEPT !.op = "Flush", !.wr = wr, !.err = r.err]
            /\ wrFailed' = (wrFailed \/ r.err = "io")
            /\ UNCHANGED everSet

\* One more call on the engine, by a single caller
Tick(bound) ==
    /\ nops < bound
    /\ nops' = nops + 1
    /\ UNCHANGED <<inMemory, ManualFlush, th, mutex, fatal>>

\* ... of a program that uses this engine only
Step(bound) ==
    /\ Tick(bound)
    /\ UNCHANGED <<contentB, rows, mock, peer, http>>

DoSet == Step(MaxOps) /\ CallSet(Collections, Keys, Values, WriteChoices)

DoGet == Step(MaxOps) /\ CallGet(Collections, Keys)

DoDelete == Step(MaxOps) /\ CallDelete(Collections, Keys, WriteChoices)

DoList == Step(MaxOps) /\ CallList(Collections, Limits, Pages)

DoFlush == Step(MaxOps) /\ CallFlush(WriteChoices)

Next == DoSet \/ DoGet \/ DoDelete \/ DoList \/ DoFlush

Spec == Init /\ [][Next]_vars

----------------------------------------------------------------------------
(* The same engine, driven to fill a collection and page through it *)

ListSet == Step(MaxListOps) /\ CallSet(ListCollections, ListKeys, Values, {"ok"})

ListDelete == Step(MaxListOps) /\ CallDelete(ListCollections, ListKeys, {"ok"})

ListList == Step(MaxListOps) /\ CallList(ListCollections, ListLimits, ListPages)

NextList == ListSet \/ ListDelete \/ ListList

SpecList == Init /\ [][NextList]_vars

----------------------------------------------------------------------------
(* Concurrent calls.  Every goroutine makes one call on the same engine.   *)
(* A call is the sequence of its operations on f.mutex and of the          *)
(* statements between them.  What a call does while it holds the lock      *)
(* exclusively is one step (no other goroutine holds the lock then); the   *)
(* statements of Get, which run without the lock or under the shared lock, *)
(* are separate steps, and readFile's loop takes one step per collection   *)
(* of the file.                                                            *)
(*                                                                         *)
(* sync.RWMutex: Lock first excludes the other writers and announces       *)
(* itself, which blocks every later RLock, then waits until the readers    *)
(* that hold the lock have left.                                           *)
(*                                                                         *)
(* Go maps are not safe for concurrent use: when one goroutine writes a    *)
(* map while another reads or writes it, the outcome is undefined; the     *)
(* runtime may let the accesses happen in either order, or detect them     *)
(* and stop the process ("fatal error: concurrent map read and map         *)
(* write", "concurrent map writes"), which no recover() catches.           *)

ConcCollections == {"colA", "colB"}

ConcKeys == {K1}

ConcValues == Values

CanLock(m) == m.writer = {} /\ m.pending = {}

CanRLock(m) == m.writer = {} /\ m.pending = {}

HoldsExclusive(t) == t \in mutex.writer

HoldsShared(t) == t \in mutex.readers

HoldsLock(t) == HoldsExclusive(t) \/ HoldsShared(t)

\* The engine the goroutines share: constructed, and possibly used for one
\* Set before they start.
InitConc ==
    \E path \in Paths, flags \in SUBSET {"ManualFlush"}, seeded \in BOOLEAN :
        LET db == NewFileStore(path, flags)
        IN  \E fl \in (IF db.inMemory THEN {EmptyFile} ELSE InitFiles) :
                LET s == IF seeded
                         THEN Set(db.content, fl, db.inMemory, db.ManualFlush,
                                  "colA", K1, VLoose, "ok")
                         ELSE [content |-> db.content, file |-> fl, err |-> "nil"]
                IN  /\ content = s.content
                    /\ inMemory = db.inMemory
                    /\ ManualFlush = db.ManualFlush
                    /\ file = s.file
                    /\ last = NoCall
                    /\ everSet = (IF seeded THEN {"colA"} ELSE {})
                    /\ wrFailed = FALSE
                    /\ nops = 0
                    /\ NoThreads
                    /\ NoPeers

\* A step of a running process that is not a sequential call
ConcStep ==
    /\ ~fatal
    /\ UNCHANGED <<inMemory, ManualFlush, last, everSet, wrFailed, nops,
                   contentB, rows, mock, peer, http>>

At(t, pc) == th[t].pc = pc

Goto(t, pc) == th' = [th EXCEPT ![t].pc = pc]

BeginSet(t) ==
    /\ ConcStep /\ At(t, "idle")
    /\ \E c \in ConcCollections, k \in ConcKeys, v \in ConcValues :
          th' = [th EXCEPT ![t] = [IdleThread EXCEPT !.pc = "lock", !.op = "Set",
                                       !.c = c, !.k = k, !.v = v]]
    /\ UNCHANGED <<content, file, mutex, fatal>>

BeginDelete(t) ==
    /\ ConcStep /\ At(t, "idle")
    /\ \E c \in ConcCollections, k \in ConcKeys :
          th' = [th EXCEPT ![t] = [IdleThread EXCEPT !.pc = "lock",
                                       !.op = "Delete", !.c = c, !.k = k]]
    /\ UNCHANGED <<content, file, mutex, fatal>>

\* Flush takes the lock only on a file-backed auto-flush engine
BeginFlush(t) ==
    /\ ConcStep /\ At(t, "idle")
    /\ th' = [th EXCEPT ![t] = [IdleThread EXCEPT
                  !.pc = IF ~inMemory /\ ~ManualFlush THEN "lock" ELSE "done",
                  !.op = "Flush"]]
    /\ UNCHANGED <<content, file, mutex, fatal>>

BeginList(t) ==
    /\ ConcStep /\ At(t, "idle")
    /\ \E c \in ConcCollections :
          th' = [th EXCEPT ![t] = [IdleThread EXCEPT !.pc = "rlock",
                                       !.op = "List", !.c = c]]
    /\ UNCHANGED <<content, file, mutex, fatal>>

BeginGet(t) ==
    /\ ConcStep /\ At(t, "idle")
    /\ \E c \in ConcCollections, k \in ConcKeys :
          th' = [th EXCEPT ![t] = [IdleThread EXCEPT !.pc = "check",
                                       !.op = "Get", !.c = c, !.k = k]]
    /\ UNCHANGED <<content, file, mutex, fatal>>

\* f.mutex.Lock(), first half: exclude the writers, stop new readers
Lock(t) ==
    /\ ConcStep /\ At(t, "lock")
    /\ CanLock(mutex)
    /\ mutex' = [mutex EXCEPT !.pending = {t}]
    /\ Goto(t, "wait")
    /\ UNCHANGED <<content, file, fatal>>

\* f.mutex.Lock(), second half: the readers have left
LockGranted(t) ==
    /\ ConcStep /\ At(t, "wait")
    /\ mutex.readers = {}
    /\ mutex' = [mutex EXCEPT !.pending = {}, !.writer = {t}]
    /\ Goto(t, "body")
    /\ UNCHANGED <<content, file, fatal>>

SetBody(t) ==
    /\ ConcStep /\ At(t, "body") /\ th[t].op = "Set"
    /\ \E wr \in WriteChoices :
          LET r == Set(content, file, inMemory, ManualFlush,
                       th[t].c, th[t].k, th[t].v, wr)
          IN  /\ content' = r.content
              /\ file' = r.file
              /\ th' = [th EXCEPT ![t].pc = "unlock", ![t].err = r.err]
    /\ UNCHANGED <<mutex, fatal>>

DeleteBody(t) ==
    /\ ConcStep /\ At(t, "body") /\ th[t].op = "Delete"
    /\ \E wr \in WriteChoices :
          LET r == Delete(content, file, inMemory, ManualFlush,
                          th[t].c, th[t].k, wr)
          IN  /\ content' = r.content
              /\ file' = r.file
              /\ th' = [th EXCEPT ![t].pc = "unlock", ![t].err = r.err,
                                  ![t].deleted = r.deleted]
    /\ UNCHANGED <<mutex, fatal>>

FlushBody(t) ==
    /\ ConcStep /\ At(t, "body") /\ th[t].op = "Flush"
    /\ \E wr \in WriteChoices :
          LET r == Flush(content, file, inMemory, ManualFlush, wr)
          IN  /\ file' = r.file
              /\ th' = [th EXCEPT ![t].pc = "unlock", ![t].err = r.err]
    /\ UNCHANGED <<content, mutex, fatal>>

\* the deferred f.mutex.Unlock()
Unlock(t) ==
    /\ ConcStep /\ At(t, "unlock")
    /\ mutex' = [mutex EXCEPT !.writer = {}]
    /\ Goto(t, "done")
    /\ UNCHANGED <<content, file, fatal>>

\* Get's f.colExists(collection), before it takes the lock
GetCheck(t) ==
    /\ ConcStep /\ At(t, "check")
    /\ th' = [th EXCEPT
                ![t].pc = IF colExists(content, th[t].c) THEN "rlock" ELSE "done",
                ![t].err = IF colExists(content, th[t].c)
                           THEN "nil" ELSE "CollectionNotFound"]
    /\ UNCHANGED <<content, file, mutex, fatal>>

\* f.mutex.RLock() of Get and List
RLock(t) ==
    /\ ConcStep /\ At(t, "rlock")
    /\ CanRLock(mutex)
    /\ mutex' = [mutex EXCEPT !.readers = @ \cup {t}]
    /\ Goto(t, IF th[t].op = "List" THEN "list"
               ELSE IF ~inMemory THEN "open" ELSE "lookup")
    /\ UNCHANGED <<content, file, fatal>>

ListBody(t) ==
    /\ ConcStep /\ At(t, "list")
    /\ LET r == List(content, th[t].c, 0, 1)
       IN  th' = [th EXCEPT ![t].pc = "runlock", ![t].err = r.err,
                            ![t].items = r.items, ![t].total = r.total]
    /\ UNCHANGED <<content, file, mutex, fatal>>

\* readFile up to json.Unmarshal
GetOpen(t) ==
    /\ ConcStep /\ At(t, "open")
    /\ \E rd \in ReadChoices :
          IF rd = "fail" \/ file.kind = "empty"
          THEN th' = [th EXCEPT ![t].pc = "runlock", ![t].err = "io",
                                ![t].rd = rd]
          ELSE th' = [th EXCEPT
                        ![t].pc = IF DOMAIN file.tree = {} THEN "lookup" ELSE "merge",
                        ![t].data = IF DOMAIN file.tree = {} THEN EmptyMap ELSE file.tree,
                        ![t].todo = DOMAIN file.tree]
    /\ UNCHANGED <<content, file, mutex, fatal>>

\* One iteration of readFile's outer loop, over the collection x of the file
GetMerge(t) ==
    /\ ConcStep /\ At(t, "merge")
    /\ \E x \in th[t].todo :
          LET rest == th[t].todo \ {x}
              next == [th EXCEPT
                         ![t].pc = IF rest = {} THEN "lookup" ELSE "merge",
                         ![t].data = IF rest = {} THEN EmptyMap ELSE @,
                         ![t].todo = rest]
          IN  CASE DOMAIN th[t].data[x] = {} ->
                      content' = content /\ th' = next
                [] ~colExists(content, x) ->
                      /\ content' = content
                      /\ th' = [th EXCEPT ![t].pc = "runlock", ![t].err = "panic",
                                          ![t].data = EmptyMap, ![t].todo = {}]
                [] OTHER ->
                      /\ content' = MergeFile(content, th[t].data, {x})
                      /\ th' = next
    /\ UNCHANGED <<file, mutex, fatal>>

\* d := f.content[collection][key]; *value = d
GetLookup(t) ==
    /\ ConcStep /\ At(t, "lookup")
    /\ th' = [th EXCEPT ![t].pc = "runlock", ![t].err = "nil",
                        ![t].out = Lookup(content, th[t].c, th[t].k)]
    /\ UNCHANGED <<content, file, mutex, fatal>>

\* the deferred f.mutex.RUnlock()
RUnlock(t) ==
    /\ ConcStep /\ At(t, "runlock")
    /\ mutex' = [mutex EXCEPT !.readers = @ \ {t}]
    /\ Goto(t, "done")
    /\ UNCHANGED <<content, file, fatal>>

\* The map accesses of the statement a goroutine is about to execute.
\* The outer map is f.content, the inner maps are its values.
WritesOuter(t) ==
    At(t, "body") /\ th[t].op = "Set" /\ ~colExists(content, th[t].c)

ReadsOuter(t) ==
    th[t].pc \in {"check", "body", "list", "merge", "lookup"}

WritesInner(t, x) ==
    \/ At(t, "body") /\ th[t].op = "Set" /\ th[t].c = x
    \/ At(t, "body") /\ th[t].op = "Delete" /\ th[t].c = x /\ Had(x, th[t].k)
    \/ /\ At(t, "merge") /\ colExists(content, x)
       /\ \E y \in th[t].todo : y = x /\ DOMAIN th[t].data[y] # {}

ReadsInner(t, x) ==
    \/ At(t, "lookup") /\ th[t].c = x
    \/ At(t, "list") /\ ListCollection(th[t].c) = x
    \/ At(t, "body") /\ th[t].op = "Flush"

Races(a, b) ==
    \/ WritesOuter(a) /\ ReadsOuter(b)
    \/ \E x \in DOMAIN content :
          WritesInner(a, x) /\ (WritesInner(b, x) \/ ReadsInner(b, x))

DataRace == \E a, b \in Threads : a # b /\ Races(a, b)

\* The runtime detects two racing map accesses and stops the process
Fatal ==
    /\ ~fatal
    /\ DataRace
    /\ fatal' = TRUE
    /\ UNCHANGED <<content, inMemory, ManualFlush, file, last, everSet,
                   wrFailed, nops, th, mutex, contentB, rows, mock, peer, http>>

ThreadNext(t) ==
    \/ BeginSet(t) \/ BeginGet(t) \/ BeginDelete(t) \/ BeginList(t)
    \/ BeginFlush(t)
    \/ Lock(t) \/ LockGranted(t) \/ SetBody(t) \/ DeleteBody(t) \/ FlushBody(t)
    \/ Unlock(t)
    \/ GetCheck(t) \/ RLock(t) \/ ListBody(t) \/ GetOpen(t) \/ GetMerge(t)
    \/ GetLookup(t) \/ RUnlock(t)

NextConc == (\E t \in Threads : ThreadNext(t)) \/ Fatal

SpecConc == InitConc /\ [][NextConc]_vars

----------------------------------------------------------------------------
(* Vocabulary of the properties *)

AutoFlush == ~inMemory /\ ~ManualFlush

AllKeys == Keys \cup ListKeys

\* The collection table a call addresses: List replaces the empty name
Addressed(op, c) == IF op = "List" THEN ListCollection(c) ELSE c

SameTarget(a, b) == a.c = b.c /\ a.k = b.k

----------------------------------------------------------------------------
(* C1: In every persistence mode, a Set(c,k,v) that returns no error,      *)
(* immediately followed by Get(c,k) on the same engine (the file being     *)
(* readable), makes the Get return no error and yield exactly v.           *)

C1_SetThenGet ==
    [][ ( /\ last.op = "Set" /\ last.err = "nil"
          /\ last'.op = "Get" /\ SameTarget(last', last)
          /\ last'.rd = "ok" )
        => ( last'.err = "nil" /\ last'.out = last.v ) ]_vars

(* C2: A second Set on the same (collection,key) replaces the prior value: *)
(* the tree then holds the new value under k, the collection has the same  *)
(* keys as before (one entry for k), in auto-flush mode a Set that returns *)
(* no error leaves the new value (its JSON text without insignificant      *)
(* white space) in the file under (c,k), and a Get(c,k) that follows       *)
(* yields the new value.                                                   *)

C2_SecondSetReplaces ==
    [][ /\ ( last'.op = "Set" /\ Had(last'.c, last'.k) )
           => ( /\ HadIn(content', last'.c, last'.k)
                /\ content'[last'.c][last'.k] = last'.v
                /\ DOMAIN content'[last'.c] = DOMAIN content[last'.c]
                /\ ( AutoFlush /\ last'.err = "nil" )
                   => ( /\ file'.kind = "tree"
                        /\ HadIn(file'.tree, last'.c, last'.k)
                        /\ file'.tree[last'.c][last'.k] = Compact(last'.v) ) )
        /\ ( /\ last.op = "Set" /\ last.had /\ last.err = "nil"
             /\ last'.op = "Get" /\ SameTarget(last', last)
             /\ last'.rd = "ok" )
           => ( last'.err = "nil" /\ last'.out = last.v ) ]_vars

(* C3: Set(c,k,v) and Delete(c,k) leave every other (collection,key) pair  *)
(* of the tree as it was; and the same key in two collections holds        *)
(* independent values: after a Set of k in another collection, Get(c,k)    *)
(* still yields the value stored under (c,k).                              *)

OtherPairsKept(c, k) ==
    \A c2 \in Collections, k2 \in AllKeys :
        (c2 # c \/ k2 # k)
        => ( /\ HadIn(content', c2, k2) <=> Had(c2, k2)
             /\ Had(c2, k2) => content'[c2][k2] = content[c2][k2] )

C3_OtherPairsUntouched ==
    [][ /\ ( last'.op \in {"Set", "Delete"} ) => OtherPairsKept(last'.c, last'.k)
        /\ ( /\ last.op = "Set" /\ last.err = "nil"
             /\ last'.op = "Get" /\ last'.k = last.k /\ last'.c # last.c
             /\ Had(last'.c, last'.k)
             /\ last'.rd = "ok" )
           => ( last'.err = "nil" /\ last'.out = content[last'.c][last'.k] ) ]_vars

(* C4: Get, List and Delete addressed to a collection for which no Set was *)
(* ever performed on the engine fail with CollectionNotFound and leave the *)
(* tree and the backing file unchanged.                                    *)

C4_NeverSetCollection ==
    [][ ( /\ last'.op \in {"Get", "List", "Delete"}
          /\ Addressed(last'.op, last'.c) \notin everSet )
        => ( /\ last'.err = "CollectionNotFound"
             /\ content' = content
             /\ file' = file ) ]_vars

\* Get of a collection that the file holds from an earlier run, but that
\* was never Set on this engine, while the engine has other collections
C4_Witness ==
    /\ last.op = "Get" /\ last.err = "CollectionNotFound"
    /\ last.c \notin everSet /\ everSet # {}
    /\ ~inMemory /\ file.kind = "tree" /\ last.c \in DOMAIN file.tree

(* C5: Delete(c,k) of a key present in an existing collection (the file    *)
(* write, if any, succeeding) returns true and no error; afterwards k is   *)
(* absent from c in the tree and, in auto-flush mode, from the file; all   *)
(* other keys of c keep their values.                                      *)

C5_DeletePresentKey ==
    [][ ( last'.op = "Delete" /\ Had(last'.c, last'.k) /\ last'.wr = "ok" )
        => ( /\ last'.deleted /\ last'.err = "nil"
             /\ colExists(content', last'.c)
             /\ DOMAIN content'[last'.c] = (DOMAIN content[last'.c]) \ {last'.k}
             /\ \A k2 \in DOMAIN content'[last'.c] :
                    content'[last'.c][k2] = content[last'.c][k2]
             /\ AutoFlush
                => ( /\ file'.kind = "tree"
                     /\ colExists(file'.tree, last'.c)
                     /\ last'.k \notin DOMAIN file'.tree[last'.c] ) ) ]_vars

\* an auto-flush Delete that removed one key of a collection and kept another
C5_Witness ==
    /\ last.op = "Delete" /\ last.had /\ last.deleted /\ last.err = "nil"
    /\ AutoFlush /\ file.kind = "tree"
    /\ DOMAIN content[last.c] # {}
    /\ DOMAIN file.tree[last.c] = DOMAIN content[last.c]

(* C6: Delete(c,k) of a key that is absent from the existing collection c  *)
(* (never set, or already deleted; the file write, if any, succeeding)     *)
(* returns false and no error and leaves the tree unchanged; Delete(c,k)   *)
(* twice in a row returns true, then false, with the tree as after the     *)
(* first.                                                                  *)

C6_DeleteIdempotent ==
    [][ /\ ( /\ last'.op = "Delete" /\ last'.wr = "ok"
             /\ colExists(content, last'.c) /\ ~Had(last'.c, last'.k) )
           => ( ~last'.deleted /\ last'.err = "nil" /\ content' = content )
        /\ ( /\ last.op = "Delete" /\ last.deleted
             /\ last'.op = "Delete" /\ SameTarget(last', last)
             /\ last'.wr = "ok" )
           => ( ~last'.deleted /\ last'.err = "nil" /\ content' = content ) ]_vars

\* a Delete that found nothing in a collection emptied by an earlier Delete
C6_Witness ==
    /\ last.op = "Delete" /\ last.existed /\ ~last.had
    /\ ~last.deleted /\ last.err = "nil"
    /\ DOMAIN content[last.c] = {}

----------------------------------------------------------------------------
(* Pagination as the specification states it *)

\* limit <= 0 or > 20 is the maximum; page < 1 is page 1
ClaimedLimit(limit) ==
    IF limit <= 0 \/ limit > MaxListItems THEN MaxListItems ELSE limit

ClaimedPage(page) == IF page < 1 THEN 1 ELSE page

\* position of k in the ascending byte-wise order of the keys S
Rank(S, k) == Cardinality({j \in S : StrLess(j, k)}) + 1

Min(a, b) == IF a < b THEN a ELSE b

\* the entries at positions offset+1 .. min(offset+limit, n)
PageOf(table, limit, page) ==
    LET n      == Cardinality(DOMAIN table)
        offset == (page - 1) * limit
    IN  [k \in {x \in DOMAIN table :
                    Rank(DOMAIN table, x) \in (offset + 1)..Min(offset + limit, n)}
            |-> table[k]]

ListedTable == content[ListCollection(last.c)]

(* C7: List(c,limit,page) on an existing collection with n keys returns    *)
(* exactly the entries at positions offset+1 .. min(offset+limit, n) of    *)
(* the ascending byte-wise order of c's keys, each with its stored value,  *)
(* for the clamped limit and page and offset = (page-1)*limit.             *)

C7_ListReturnsPage ==
    ( last.op = "List" /\ last.existed )
    => ( /\ last.err = "nil"
         /\ last.items = PageOf(ListedTable, ClaimedLimit(last.limit),
                                ClaimedPage(last.page)) )

(* C8: For every existing collection and every limit and page, List        *)
(* returns as total the number of keys currently in the collection.        *)

C8_ListTotal ==
    ( last.op = "List" /\ last.existed )
    => ( last.err = "nil" /\ last.total = Cardinality(DOMAIN ListedTable) )

(* C9: List treats every limit <= 0 and every limit > 20 as 20 and every   *)
(* page < 1 as 1: the call has the outcome of the call with the clamped    *)
(* values.                                                                 *)

C9_ListClamps ==
    ( last.op = "List" /\ last.existed )
    => LET r == List(content, last.c, ClaimedLimit(last.limit),
                     ClaimedPage(last.page))
       IN  last.err = r.err /\ last.items = r.items /\ last.total = r.total

(* C10: List never fails on a pagination overrun: on an existing           *)
(* collection with n keys, a page whose offset is at or beyond n is        *)
(* returned empty, with total n and no error or panic, and a page that     *)
(* straddles the end is returned with the n - offset remaining entries.    *)
(* Stated for the limits >= 0, on whose clamping code and specification    *)
(* agree.                                                                  *)

C10_ListOverrun ==
    ( last.op = "List" /\ last.existed /\ last.limit >= 0 )
    => LET n      == Cardinality(DOMAIN ListedTable)
           limit  == ClaimedLimit(last.limit)
           offset == (ClaimedPage(last.page) - 1) * limit
       IN  /\ offset >= n
              => ( last.err = "nil" /\ last.items = NoItems /\ last.total = n )
           /\ ( offset < n /\ offset + limit > n )
              => ( /\ last.err = "nil" /\ last.total = n
                   /\ Cardinality(DOMAIN last.items) = n - offset )

----------------------------------------------------------------------------
\* Whether the file holds an entry under (c,k)
InFile(c, k) == file.kind = "tree" /\ HadIn(file.tree, c, k)

(* C11: Get(c,k) for a key k that is absent from the existing collection c *)
(* (and from the file the engine reloads), the file being readable and no  *)
(* write having failed, returns no error and sets the output to the JSON   *)
(* null (the zero RawMessage), in every persistence mode.                  *)

C11_AbsentKeyIsNull ==
    [][ ( /\ last'.op = "Get" /\ last'.existed /\ ~last'.had
          /\ last'.rd = "ok" /\ ~wrFailed /\ ~InFile(last'.c, last'.k) )
        => ( last'.err = "nil" /\ last'.out = Nil ) ]_vars

\* Two raw values that are the same JSON value
JsonEq(a, b) == Marshal(Unmarshal(a)) = Marshal(Unmarshal(b))

\* The file holds exactly the collections and keys of the tree, each with
\* the same JSON value
FileMirrors(tree, fl) ==
    /\ fl.kind = "tree"
    /\ DOMAIN fl.tree = DOMAIN tree
    /\ \A c \in DOMAIN tree :
          /\ DOMAIN fl.tree[c] = DOMAIN tree[c]
          /\ \A k \in DOMAIN tree[c] : JsonEq(fl.tree[c][k], tree[c][k])

(* C12: In file-backed auto-flush mode, as long as no file write has       *)
(* failed: every Set and Delete that returns no error leaves in the file   *)
(* the serialization of the whole tree as that call left it (a failed      *)
(* Delete on a missing collection leaves the file alone), Get and List     *)
(* never change the file, and from the first Set on the file holds, after  *)
(* every call, exactly the collections and keys of the tree with the same  *)
(* JSON values.                                                            *)

C12_FileIsLastSnapshot ==
    [][ ( AutoFlush /\ ~wrFailed' )
        => ( /\ ( last'.op \in {"Set", "Delete"} /\ last'.err = "nil" )
                => file' = TreeFile(Json(content'))
             /\ ( last'.op \in {"Get", "List"} \/ last'.err = "CollectionNotFound" )
                => file' = file
             /\ everSet' # {} => FileMirrors(content', file') ) ]_vars

C12_Witness ==
    /\ AutoFlush /\ ~wrFailed
    /\ last.op = "Delete" /\ last.deleted /\ last.err = "nil"
    /\ \E c \in DOMAIN content : content[c] # EmptyMap
    /\ file = TreeFile(Json(content))

ManualMode == ~inMemory /\ ManualFlush

(* C13: In manual-flush mode Set and Delete never write the backing file:  *)
(* every Set and every Delete leaves the file's content as it was, and     *)
(* returns no I/O error.                                                   *)

C13_ManualNeverWrites ==
    [][ ( ManualMode /\ last'.op \in {"Set", "Delete"} )
        => ( file' = file /\ last'.err \in {"nil", "CollectionNotFound"} ) ]_vars

C13_Witness ==
    /\ ManualMode
    /\ last.op = "Delete" /\ last.deleted
    /\ \E c \in DOMAIN content : content[c] # EmptyMap
    /\ file = EmptyFile

(* C14: In manual-flush mode, after one or more Sets, an explicit Flush()  *)
(* that returns without error leaves in the file the serialization of the  *)
(* whole tree as of that Flush.                                            *)

C14_ManualFlushWrites ==
    ( ManualMode /\ last.op = "Flush" /\ last.err = "nil" /\ everSet # {} )
    => file = TreeFile(Json(content))

(* C15: An engine constructed with the path "memory" or with an empty path *)
(* never reads or writes a file: no call changes the file or returns an    *)
(* I/O error, Get leaves the tree as it is and yields what the tree holds  *)
(* (a reload would fail on the missing file or merge its entries), and     *)
(* Flush returns no error and leaves the tree unchanged.                   *)

C15_InMemoryNoFile ==
    [][ inMemory
        => ( /\ file' = file
             /\ last'.err # "io"
             /\ last'.op = "Flush"
                => ( last'.err = "nil" /\ content' = content )
             /\ last'.op = "Get"
                => ( /\ content' = content
                     /\ last'.existed
                        => ( /\ last'.err = "nil"
                             /\ last'.out = Lookup(content, last'.c, last'.k) ) ) ) ]_vars

C15_Witness ==
    /\ inMemory
    /\ last.op = "Flush" /\ last.err = "nil"
    /\ \E c \in DOMAIN content : content[c] # EmptyMap
    /\ file = EmptyFile

(* C16: In write-through mode, when the file write of a Set or Delete      *)
(* fails, the call returns the I/O error and keeps its change of the       *)
(* tree: after the failed Set(c,k,v) the tree holds v under (c,k); after   *)
(* the failed Delete of a present key the key is gone and the returned     *)
(* flag is true; every other entry is as before.                           *)

C16_FailedWriteKeepsMutation ==
    [][ ( AutoFlush /\ last'.wr # "ok" )
        => ( /\ last'.op = "Set"
                => ( /\ last'.err = "io"
                     /\ HadIn(content', last'.c, last'.k)
                     /\ content'[last'.c][last'.k] = last'.v )
             /\ ( last'.op = "Delete" /\ Had(last'.c, last'.k) )
                => ( /\ last'.err = "io"
                     /\ last'.deleted
                     /\ colExists(content', last'.c)
                     /\ ~HadIn(content', last'.c, last'.k) )
             /\ last'.op \in {"Set", "Delete"}
                => OtherPairsKept(last'.c, last'.k) ) ]_vars

C16_Witness ==
    /\ AutoFlush
    /\ last.op = "Delete" /\ last.wr # "ok" /\ last.err = "io"
    /\ last.had /\ last.deleted
    /\ ~HadIn(content, last.c, last.k)
    /\ file.kind = "tree" /\ HadIn(file.tree, last.c, last.k)

----------------------------------------------------------------------------
(* Properties of concurrent calls *)

AllReturned == \A t \in Threads : At(t, "done")

\* Every goroutine has called Set on the same (collection,key), with
\* pairwise distinct values
SetsOfOnePair ==
    \A a, b \in Threads :
        /\ th[a].op = "Set"
        /\ th[a].c = th[b].c /\ th[a].k = th[b].k
        /\ a # b => th[a].v # th[b].v

(* C17: After concurrent Set(c,k,v_i) calls with pairwise distinct values  *)
(* have all returned, the tree holds under (c,k) exactly one of the v_i    *)
(* and the lock is free; in auto-flush mode, when none of the calls        *)
(* returned an error, the file is the serialization of that final tree.    *)

C17_ConcurrentSets ==
    ( AllReturned /\ SetsOfOnePair )
    => ( /\ \A t \in Threads : HadIn(content, th[t].c, th[t].k)
         /\ \E w \in Threads : content[th[w].c][th[w].k] = th[w].v
         /\ mutex = FreeMutex
         /\ ( AutoFlush /\ \A t \in Threads : th[t].err = "nil" )
            => file = TreeFile(Json(content)) )

C17_Witness ==
    /\ AllReturned /\ SetsOfOnePair
    /\ AutoFlush
    /\ \A t \in Threads : th[t].err = "nil"
    /\ file = TreeFile(Json(content))

\* The goroutine is inside readFile's loop and its next iteration assigns
\* to the tree
Mutating(t) ==
    /\ At(t, "merge")
    /\ \E x \in th[t].todo : colExists(content, x) /\ DOMAIN th[t].data[x] # {}

(* C18: The tree is modified only by a goroutine that holds the lock       *)
(* exclusively: no step of a goroutine that does not hold it exclusively   *)
(* changes the tree, and in no reachable state do two goroutines hold the  *)
(* lock in shared mode while one of them is mutating the tree.             *)

C18_OnlyExclusiveHoldersWrite ==
    \A a, b \in Threads :
        ( a # b /\ HoldsShared(a) /\ HoldsShared(b) ) => ~Mutating(a)

\* The statement the goroutine is about to execute reads the tree
ReadsTree(t) == ReadsOuter(t)

\* The goroutine is about to write the tree
WritesTree(t) == WritesOuter(t) \/ \E x \in DOMAIN content : WritesInner(t, x)

(* C19: Every read of the tree, the collection-existence checks included,  *)
(* is made by a goroutine that holds the lock, shared or exclusive, so no  *)
(* goroutine is about to read the tree while another one is about to       *)
(* write it in a Set or Delete.                                            *)

C19_ReadsHoldTheLock ==
    /\ \A t \in Threads : ReadsTree(t) => HoldsLock(t)
    /\ \A a, b \in Threads :
          ( a # b /\ ReadsTree(a) )
          => ~( WritesTree(b) /\ th[b].op \in {"Set", "Delete"} )

\* The goroutine is inside a call
InCall(t) == th[t].pc \notin {"idle", "done"}

(* C20: In every interleaving of concurrent Set, Get, List, Delete and     *)
(* Flush calls no state is reachable in which a call is under way and no   *)
(* goroutine can take a step, and once every call has returned, with or    *)
(* without an error, the lock is free.                                     *)

C20_NoCallIsStuck ==
    /\ ( \E t \in Threads : InCall(t) ) => ENABLED NextConc
    /\ AllReturned => mutex = FreeMutex

----------------------------------------------------------------------------
(* Two engines on one file.  A (content) and B (contentB) are constructed  *)
(* with NewFileStore on the same path, both file-backed and auto-flush, so *)
(* inMemory and ManualFlush are the flags of both.  NewFileStore does not  *)
(* read the file: an engine constructed after the other one wrote starts   *)
(* with the same empty content as one constructed before.                  *)

TwoCollections == {"colA", "colB"}

InitTwo ==
    LET a == NewFileStore(FilePath, {})
        b == NewFileStore(FilePath, {})
    IN  /\ content = a.content
        /\ inMemory = a.inMemory
        /\ ManualFlush = a.ManualFlush
        /\ file \in InitFiles
        /\ last = NoCall
        /\ everSet = {}
        /\ wrFailed = FALSE
        /\ nops = 0
        /\ NoThreads
        /\ NoPeers
        /\ contentB = b.content

VisitsOf(tree) ==
    IF file.kind = "tree" /\ Unstorable(tree, file.tree) # {}
    THEN SUBSET ((DOMAIN file.tree) \ Unstorable(tree, file.tree))
    ELSE {{}}

\* A call on engine B leaves engine A and everything but the file alone
OnB(bound) ==
    /\ Tick(bound)
    /\ UNCHANGED <<content, everSet, rows, mock, peer, http>>

ASet == Step(MaxTwoOps) /\ CallSet(TwoCollections, Keys, Values, WriteChoices)

AGet == Step(MaxTwoOps) /\ CallGet(TwoCollections, Keys)

ADelete == Step(MaxTwoOps) /\ CallDelete(TwoCollections, Keys, WriteChoices)

BSet ==
    /\ OnB(MaxTwoOps)
    /\ \E c \in TwoCollections, k \in Keys, v \in Values, wr \in WriteChoices :
          LET r == Set(contentB, file, inMemory, ManualFlush, c, k, v, wr)
          IN  /\ contentB' = r.content
              /\ file' = r.file
              /\ last' = [NoCall EXCEPT !.eng = "B", !.op = "Set", !.c = c,
                              !.k = k, !.v = v, !.wr = wr,
                              !.existed = colExists(contentB, c),
                              !.had = HadIn(contentB, c, k), !.err = r.err]
              /\ wrFailed' = (wrFailed \/ r.err = "io")

BGet ==
    /\ OnB(MaxTwoOps)
    /\ \E c \in TwoCollections, k \in Keys, rd \in ReadChoices,
          visited \in VisitsOf(contentB) :
          LET r == Get(contentB, file, inMemory, c, k, rd, visited)
          IN  /\ contentB' = r.content
              /\ file' = file
              /\ last' = [NoCall EXCEPT !.eng = "B", !.op = "Get", !.c = c,
                              !.k = k, !.rd = rd,
                              !.existed = colExists(contentB, c),
                              !.had = HadIn(contentB, c, k),
                              !.err = r.err, !.out = r.value]
              /\ UNCHANGED wrFailed

BDelete ==
    /\ OnB(MaxTwoOps)
    /\ \E c \in TwoCollections, k \in Keys, wr \in WriteChoices :
          LET r == Delete(contentB, file, inMemory, ManualFlush, c, k, wr)
          IN  /\ contentB' = r.content
              /\ file' = r.file
              /\ last' = [NoCall EXCEPT !.eng = "B", !.op = "Delete", !.c = c,
                              !.k = k, !.wr = wr,
                              !.existed = colExists(contentB, c),
                              !.had = HadIn(contentB, c, k),
                              !.err = r.err, !.deleted = r.deleted]
              /\ wrFailed' = (wrFailed \/ r.err = "io")

NextTwo == ASet \/ AGet \/ ADelete \/ BSet \/ BGet \/ BDelete

SpecTwo == InitTwo /\ [][NextTwo]_vars

(* C21: With two engines A and B on the same file, both file-backed and    *)
(* auto-flush, a B.Get(c,k) that directly follows an A.Set(c,k,v) which    *)
(* returned no error (the file being readable) returns no error and        *)
(* yields v, whether or not B has ever Set anything in c.                  *)

C21_CrossInstanceVisibility ==
    [][ ( /\ last.op = "Set" /\ last.eng = "A" /\ last.err = "nil"
          /\ last'.op = "Get" /\ last'.eng = "B" /\ SameTarget(last', last)
          /\ last'.rd = "ok" )
        => ( last'.err = "nil" /\ last'.out = last.v ) ]_vars

----------------------------------------------------------------------------
\* The value InitConc's Set stored under ("colA", item1)
SeededValue == VLoose

\* The engine holds SeededValue and every goroutine calls Get for it
GetsOfSeeded ==
    /\ everSet = {"colA"}
    /\ \A t \in Threads :
          th[t].op = "Get" /\ th[t].c = "colA" /\ th[t].k = K1

(* C22: With a value v stored under (c,k) and no concurrent mutation, any  *)
(* number of concurrent Get(c,k) calls on the same engine all return v     *)
(* without error (the file being readable), and the process is not        *)
(* stopped by a fatal error.                                               *)

C22_ConcurrentGets ==
    GetsOfSeeded
    => ( /\ ~fatal
         /\ \A t \in Threads :
               ( At(t, "done") /\ th[t].rd = "ok" )
               => ( th[t].err = "nil" /\ th[t].out = SeededValue ) )

----------------------------------------------------------------------------
(* The other implementations of JsonStorer.                                *)
(*                                                                         *)
(* DbStore keeps one row per (ID, Collection), the primary key of          *)
(* dbDocument; `rows` maps <<collection, id>> to the value column.  The    *)
(* database is taken to answer every query: Save inserts or replaces the   *)
(* row, First fails with gorm.ErrRecordNotFound when no row matches,       *)
(* Delete reports the rows it removed, and Order("id ASC") is the          *)
(* byte-wise order of the ids.  List is modelled for limit >= 0.           *)

DbCollection(collection) ==
    IF collection = "" THEN DefaultCollection ELSE collection

\* dbDocument.Validate
Validate(id, collection) ==
    IF id = <<>> \/ collection = "" THEN "validation" ELSE "nil"

DbIds(table, collection) == {p[2] : p \in {q \in DOMAIN table : q[1] = collection}}

DbSet(table, collection0, key, value) ==
    LET collection == DbCollection(collection0)
    IN  IF Validate(key, collection) # "nil"
        THEN [rows |-> table, out |-> [NoOutcome EXCEPT !.err = "validation"]]
        ELSE [rows |-> MapSet(table, <<collection, key>>, value),
              out |-> NoOutcome]

\* *value = item.Value is executed before the error is looked at
DbGet(table, collection0, key) ==
    LET collection == DbCollection(collection0)
    IN  IF <<collection, key>> \in DOMAIN table
        THEN [rows |-> table,
              out |-> [NoOutcome EXCEPT !.out = table[<<collection, key>>]]]
        ELSE [rows |-> table,
              out |-> [NoOutcome EXCEPT !.err = "RecordNotFound", !.out = Nil]]

DbList(table, collection0, limit0, page0) ==
    LET collection == DbCollection(collection0)
        limit  == IF limit0 = 0 \/ limit0 > MaxListItems THEN MaxListItems ELSE limit0
        page   == IF page0 < 1 THEN 1 ELSE page0
        offset == (page - 1) * limit
        ids    == SortStrings(DbIds(table, collection))
        end    == IF offset + limit > Len(ids) THEN Len(ids) ELSE offset + limit
    IN  [rows |-> table,
         out |-> [NoOutcome EXCEPT
                    !.items = [k \in {ids[i] : i \in (offset + 1)..end} |->
                                  table[<<collection, k>>]],
                    !.total = Len(ids)]]

DbDelete(table, collection0, key) ==
    LET collection == DbCollection(collection0)
    IN  IF <<collection, key>> \in DOMAIN table
        THEN [rows |-> MapDelete(table, <<collection, key>>),
              out |-> [NoOutcome EXCEPT !.deleted = TRUE]]
        ELSE [rows |-> table, out |-> NoOutcome]

\* The call `call` made on the DbStore
DbCall(table, call) ==
    CASE call.op = "Set"    -> DbSet(table, call.c, call.k, call.v)
      [] call.op = "Get"    -> DbGet(table, call.c, call.k)
      [] call.op = "List"   -> DbList(table, call.c, call.limit, call.page)
      [] call.op = "Delete" -> DbDelete(table, call.c, call.k)
      [] OTHER              -> [rows |-> table, out |-> NoOutcome]

(* MockStorer, with Err = nil.  Its List walks the Go map and keeps the    *)
(* entries at the positions start..end-1 of the walk, whose order is       *)
(* unspecified: `picked` is the set of keys it kept.                       *)

MockSet(data, collection, key, value) ==
    LET d1 == IF collection \in DOMAIN data
              THEN data ELSE MapSet(data, collection, EmptyMap)
    IN  [data |-> [d1 EXCEPT ![collection] = MapSet(d1[collection], key, value)],
         out |-> NoOutcome]

MockGet(data, collection, key) ==
    IF collection \in DOMAIN data
    THEN IF key \in DOMAIN data[collection]
         THEN [data |-> data,
               out |-> [NoOutcome EXCEPT !.out = data[collection][key]]]
         ELSE [data |-> data, out |-> [NoOutcome EXCEPT !.err = "ItemNotFound"]]
    ELSE [data |-> data, out |-> [NoOutcome EXCEPT !.err = "CollectionNotFound"]]

MockDelete(data, collection, key) ==
    IF collection \in DOMAIN data /\ key \in DOMAIN data[collection]
    THEN [data |-> [data EXCEPT ![collection] = MapDelete(data[collection], key)],
          out |-> [NoOutcome EXCEPT !.deleted = TRUE]]
    ELSE [data |-> data, out |-> NoOutcome]

\* The sets of keys MockStorer.List can return
MockPicks(data, collection, limit, page) ==
    IF collection \notin DOMAIN data
    THEN {{}}
    ELSE LET n     == Cardinality(DOMAIN data[collection])
             start == (page - 1) * limit
             end   == start + limit
             kept  == Cardinality({i \in 0..(n - 1) : i >= start /\ i < end})
         IN  {S \in SUBSET (DOMAIN data[collection]) : Cardinality(S) = kept}

MockList(data, collection, limit, page, picked) ==
    IF collection \notin DOMAIN data
    THEN [data |-> data, out |-> NoOutcome]
    ELSE [data |-> data,
          out |-> [NoOutcome EXCEPT
                     !.items = [k \in picked |-> data[collection][k]],
                     !.total = Cardinality(DOMAIN data[collection])]]

MockCall(data, call, picked) ==
    CASE call.op = "Set"    -> MockSet(data, call.c, call.k, call.v)
      [] call.op = "Get"    -> MockGet(data, call.c, call.k)
      [] call.op = "List"   -> MockList(data, call.c, call.limit, call.page, picked)
      [] call.op = "Delete" -> MockDelete(data, call.c, call.k)
      [] OTHER              -> [data |-> data, out |-> NoOutcome]

\* The call just made on the FileStore (last'), made on the DbStore and on
\* the MockStorer as well
CallPeers ==
    \E picked \in (IF last'.op = "List"
                   THEN MockPicks(mock, last'.c, last'.limit, last'.page)
                   ELSE {{}}) :
        LET d == DbCall(rows, last')
            m == MockCall(mock, last', picked)
        IN  /\ rows' = d.rows
            /\ mock' = m.data
            /\ peer' = [db |-> d.out, mock |-> m.out]

\* One call on the three implementations (TestJsonStorerImplementations)
OnAll(bound) == Tick(bound) /\ UNCHANGED <<contentB, http>>

BothCollections == {"colA", "colB"}

AllSet ==
    /\ OnAll(MaxBothOps)
    /\ CallSet(BothCollections, Keys, Values, WriteChoices)
    /\ CallPeers

AllGet == OnAll(MaxBothOps) /\ CallGet(BothCollections, Keys) /\ CallPeers

AllDelete ==
    /\ OnAll(MaxBothOps)
    /\ CallDelete(BothCollections, Keys, WriteChoices)
    /\ CallPeers

AllList ==
    /\ OnAll(MaxBothOps)
    /\ CallList(BothCollections, Limits, Pages)
    /\ CallPeers

NextStorers == AllSet \/ AllGet \/ AllDelete \/ AllList

SpecStorers == Init /\ [][NextStorers]_vars

\* The results of the FileStore call and a Storer's outcome are the same
SameOutcome(call, o) ==
    /\ call.err = o.err
    /\ call.out = o.out
    /\ call.deleted = o.deleted
    /\ call.items = o.items
    /\ call.total = o.total

(* C23: For every sequence of Set/Get/Delete/List calls with non-empty     *)
(* collection and key, made on a FileStore and on a DbStore, each call     *)
(* returns the same results and the same error on both (no file operation  *)
(* of the FileStore being made to fail).                                   *)

C23_StorersConform ==
    ( last.op # "none" /\ last.wr = "ok" /\ last.rd = "ok" /\ ~wrFailed )
    => SameOutcome(last, peer.db)

----------------------------------------------------------------------------
(* The HTTP binding.  One Handler per Storer (FileStore, DbStore,          *)
(* MockStorer), all three for the same Collection, are served the same     *)
(* requests.  A URL path is its segments and whether it ends with "/";     *)
(* a query parameter is the result of strconv.Atoi on it.  A handler that  *)
(* panics writes nothing: net/http recovers and drops the connection.      *)

StatusOK == 200
StatusCreated == 201
StatusNotFound == 404
StatusMethodNotAllowed == 405
StatusInternalServerError == 500

DefaultLimit == 10
DefaultPage == 1

HandlerCollection == "colA"

Methods == {"POST", "GET", "DELETE", "PUT"}

Mount == K3

UrlPaths ==
    {[segs |-> <<Mount>>, slash |-> TRUE],
     [segs |-> <<Mount, K1>>, slash |-> FALSE],
     [segs |-> <<Mount, K1>>, slash |-> TRUE],
     [segs |-> <<Mount, K2>>, slash |-> FALSE]}

QueryParams == {NoParam, [ok |-> TRUE, n |-> 0], [ok |-> TRUE, n |-> 2]}

GetReqKey(p) == IF p.slash THEN <<>> ELSE p.segs[Len(p.segs)]

\* Variant of Route that sends every GET to Get, with or without a key
RouteGetAlways(method, key) ==
    CASE method = "POST"   -> "Set"
      [] method = "GET"    -> "Get"
      [] method = "DELETE" -> "Delete"
      [] OTHER             -> "none"

\* The method of HttpStorer that ServeHTTP calls, "none" for the default case
Route(method, key) ==
    CASE method = "POST"   -> "Set"
      [] method = "GET"    -> IF key = <<>> THEN "List" ELSE "Get"
      [] method = "DELETE" -> "Delete"
      [] OTHER             -> "none"

Reply(code, body) == [code |-> code, body |-> body]

Empty == [kind |-> "empty"]

Text(msg) == [kind |-> "text", text |-> msg]

\* What the handler wrote when the Storer's call ended as o
Served(o, response) == IF o.err = "panic" THEN NoResponse ELSE response

HttpSet(o) ==
    IF o.err # "nil"
    THEN Reply(StatusInternalServerError, Text("Failed to store data"))
    ELSE Reply(StatusCreated, Empty)

HttpGet(o) ==
    IF o.err # "nil"
    THEN IF o.err = "ItemNotFound"
         THEN Reply(StatusNotFound, Text("Failed to retrieve item"))
         ELSE Reply(StatusInternalServerError, Text("Failed to retrieve item"))
    ELSE Reply(StatusOK, IF o.out = Nil THEN Empty
                         ELSE [kind |-> "json", value |-> o.out])

QueryLimit(q) == IF q.ok /\ q.n > 0 THEN q.n ELSE DefaultLimit

QueryPage(q) == IF q.ok /\ q.n > 0 THEN q.n ELSE DefaultPage

\* json.Encoder writes each json.RawMessage of the page compacted
HttpList(o, limit, page) ==
    IF o.err # "nil"
    THEN Reply(StatusInternalServerError, Text("Failed to fetch items"))
    ELSE Reply(StatusOK, [kind |-> "list",
                          items |-> [k \in DOMAIN o.items |-> Compact(o.items[k])],
                          total |-> o.total, page |-> page, limit |-> limit])

HttpDelete(o) ==
    IF o.err # "nil"
    THEN Reply(StatusInternalServerError, Text("Failed to delete data"))
    ELSE IF ~o.deleted
         THEN Reply(StatusNotFound, Text("Item not found"))
         ELSE Reply(StatusOK, Empty)

\* What HttpStorer's method `route` wrote for the Storer outcome o
Respond(route, o, limit, page) ==
    Served(o, CASE route = "Set"    -> HttpSet(o)
                [] route = "Get"    -> HttpGet(o)
                [] route = "List"   -> HttpList(o, limit, page)
                [] route = "Delete" -> HttpDelete(o))

\* One request, served by the three handlers
OnHttp == Tick(MaxHttpOps) /\ UNCHANGED contentB

\* The request and, once the Storers were called, the three responses
Answered(method, p, body, ql, qp) ==
    LET route == Route(method, GetReqKey(p))
    IN  http' = [method |-> method, path |-> p, body |-> body,
                 limit |-> ql, page |-> qp, route |-> route,
                 file |-> Respond(route, last', QueryLimit(ql), QueryPage(qp)),
                 db   |-> Respond(route, peer'.db, QueryLimit(ql), QueryPage(qp)),
                 mock |-> Respond(route, peer'.mock, QueryLimit(ql), QueryPage(qp))]

ServeSet ==
    \E method \in Methods, p \in UrlPaths, body \in Values :
        /\ Route(method, GetReqKey(p)) = "Set"
        /\ OnHttp
        /\ CallSet({HandlerCollection}, {GetReqKey(p)}, {body}, WriteChoices)
        /\ CallPeers
        /\ Answered(method, p, body, NoParam, NoParam)

\* io.ReadAll(r.Body) fails: no Storer is called
ServeSetUnread ==
    \E method \in Methods, p \in UrlPaths :
        /\ Route(method, GetReqKey(p)) = "Set"
        /\ OnHttp
        /\ last' = NoCall
        /\ peer' = [db |-> NoOutcome, mock |-> NoOutcome]
        /\ UNCHANGED <<content, file, everSet, wrFailed, rows, mock>>
        /\ LET r == Reply(StatusInternalServerError,
                          Text("Failed to read request body"))
           IN  http' = [NoRequest EXCEPT !.method = method, !.path = p,
                            !.route = "Set", !.file = r, !.db = r, !.mock = r]

ServeGet ==
    \E method \in Methods, p \in UrlPaths :
        /\ Route(method, GetReqKey(p)) = "Get"
        /\ OnHttp
        /\ CallGet({HandlerCollection}, {GetReqKey(p)})
        /\ CallPeers
        /\ Answered(method, p, Nil, NoParam, NoParam)

ServeList ==
    \E method \in Methods, p \in UrlPaths, ql \in QueryParams, qp \in QueryParams :
        /\ Route(method, GetReqKey(p)) = "List"
        /\ OnHttp
        /\ CallList({HandlerCollection}, {QueryLimit(ql)}, {QueryPage(qp)})
        /\ CallPeers
        /\ Answered(method, p, Nil, ql, qp)

ServeDelete ==
    \E method \in Methods, p \in UrlPaths :
        /\ Route(method, GetReqKey(p)) = "Delete"
        /\ OnHttp
        /\ CallDelete({HandlerCollection}, {GetReqKey(p)}, WriteChoices)
        /\ CallPeers
        /\ Answered(method, p, Nil, NoParam, NoParam)

\* The default case of ServeHTTP: no Storer is called
ServeOther ==
    \E method \in Methods, p \in UrlPaths :
        /\ Route(method, GetReqKey(p)) = "none"
        /\ OnHttp
        /\ last' = NoCall
        /\ peer' = [db |-> NoOutcome, mock |-> NoOutcome]
        /\ UNCHANGED <<content, file, everSet, wrFailed, rows, mock>>
        /\ LET r == Reply(StatusMethodNotAllowed, Text("method not allowed"))
           IN  http' = [NoRequest EXCEPT !.method = method, !.path = p,
                            !.file = r, !.db = r, !.mock = r]

NextHttp ==
    ServeSet \/ ServeSetUnread \/ ServeGet \/ ServeList \/ ServeDelete \/ ServeOther

SpecHttp == Init /\ [][NextHttp]_vars

\* The key of the request being answered is held by the MockStorer
MockHas(data, collection, key) ==
    collection \in DOMAIN data /\ key \in DOMAIN data[collection]

(* C24: Through the HTTP binding, a GET for a key that is not stored and a *)
(* DELETE for a key that is not stored are answered 404, with the          *)
(* FileStore as the backend as well as with the mock (no file operation    *)
(* being made to fail).                                                    *)

C24_MissingKeyIs404 ==
    [][ ( /\ http'.route \in {"Get", "Delete"}
          /\ last'.rd = "ok" /\ last'.wr = "ok" )
        => ( /\ ~last'.had => http'.file.code = StatusNotFound
             /\ ~MockHas(mock, HandlerCollection, GetReqKey(http'.path))
                   => http'.mock.code = StatusNotFound ) ]_vars

\* The status code the error mapping of the binding is specified to give
ClaimedCode(err) ==
    CASE err \in {"CollectionNotFound", "ItemNotFound"} -> StatusNotFound
      [] err = "validation" -> 400
      [] OTHER -> StatusInternalServerError

\* The Storer outcomes of the request just served, each with its response
Exchanges == {<<last, http.file>>, <<peer.db, http.db>>, <<peer.mock, http.mock>>}

(* C25: For each of the HTTP operations Set, Get, List and Delete, a       *)
(* backend error of CollectionNotFound or ItemNotFound is answered 404, a  *)
(* validation error (empty key or collection) 400, and every other         *)
(* backend error 500.                                                      *)

C25_ErrorCodes ==
    ( http.route \in {"Set", "Get", "List", "Delete"} /\ last.op # "none" )
    => \A x \in Exchanges :
          x[1].err \notin {"nil", "panic"} => x[2].code = ClaimedCode(x[1].err)

\* The text after the last "/" of a path
LastSegment(p) == IF p.slash THEN <<>> ELSE p.segs[Len(p.segs)]

\* The Storers were called with `op` on the handler's collection
Called(op) == last.op = op /\ last.c = HandlerCollection

\* The request body could not be read, and was answered so
Unread == last.op = "none" /\ http.file.body = Text("Failed to read request body")

\* Each Storer call that succeeded is answered as specified
SuccessAnswered ==
    \A x \in Exchanges :
        x[1].err = "nil" =>
            CASE last.op = "Set"    -> x[2] = Reply(StatusCreated, Empty)
              [] last.op = "Get"    ->
                    /\ x[2].code = StatusOK
                    /\ x[1].out # Nil => x[2].body = [kind |-> "json", value |-> x[1].out]
              [] last.op = "List"   ->
                    /\ x[2].code = StatusOK
                    /\ x[2].body.kind = "list"
                    /\ DOMAIN x[2].body.items = DOMAIN x[1].items
                    /\ x[2].body.total = x[1].total
              [] last.op = "Delete" ->
                    x[1].deleted => x[2] = Reply(StatusOK, Empty)
              [] OTHER -> TRUE

(* C26: Handler.ServeHTTP routes POST to Set, GET on a path ending in "/"  *)
(* (empty key) to List, GET with a non-empty key to Get and DELETE to      *)
(* Delete, with the last path segment as the key; any other method is      *)
(* answered 405 and leaves every Storer as it was; a successful Set is     *)
(* answered 201, a successful Get or List 200 with the result as body, a   *)
(* successful Delete 200 with an empty body.                               *)

C26_Routing ==
    [][ /\ http'.method = "POST" =>
              \/ Unread'
              \/ ( /\ Called("Set")' /\ last'.k = LastSegment(http'.path)
                   /\ last'.v = http'.body )
        /\ ( http'.method = "GET" /\ LastSegment(http'.path) = <<>> ) =>
              ( /\ Called("List")'
                /\ last'.limit = QueryLimit(http'.limit)
                /\ last'.page = QueryPage(http'.page) )
        /\ ( http'.method = "GET" /\ LastSegment(http'.path) # <<>> ) =>
              ( Called("Get")' /\ last'.k = LastSegment(http'.path) )
        /\ http'.method = "DELETE" =>
              ( Called("Delete")' /\ last'.k = LastSegment(http'.path) )
        /\ http'.method \notin {"POST", "GET", "DELETE"} =>
              ( /\ \A x \in Exchanges' : x[2].code = StatusMethodNotAllowed
                /\ last'.op = "none"
                /\ UNCHANGED <<content, file, rows, mock>> )
        /\ SuccessAnswered' ]_vars

C26_Witness ==
    /\ http.method = "GET" /\ http.path.slash
    /\ last.op = "List" /\ peer.db.total > 0
    /\ \A x \in Exchanges : x[1].err = "nil" /\ x[2].code = StatusOK

----------------------------------------------------------------------------
\* The pairs the tree holds before and after the step, other than the pair
\* a Set of this step writes
KeptPairs ==
    {p \in Collections \X AllKeys :
        /\ Had(p[1], p[2]) /\ HadIn(content', p[1], p[2])
        /\ ~(last'.op = "Set" /\ last'.c = p[1] /\ last'.k = p[2])}

(* C27: Values are stored verbatim.  A Set(c,k,v) leaves exactly v under   *)
(* (c,k), and, the file (if any) holding the same JSON values as the tree, *)
(* no call other than a Set of that pair changes the text held for a pair: *)
(* nothing, the reload of Get included, re-encodes a stored value.         *)

C27_StoredVerbatim ==
    [][ /\ last'.op = "Set" =>
              ( /\ HadIn(content', last'.c, last'.k)
                /\ content'[last'.c][last'.k] = last'.v )
        /\ ( inMemory \/ FileMirrors(content, file) ) =>
              \A p \in KeptPairs : content'[p[1]][p[2]] = content[p[1]][p[2]]
      ]_vars

(* C28: Lifecycle.  A pair held by an engine stays present, with the same  *)
(* JSON value, through every Get, List and Flush, whatever the backing     *)
(* file holds for it (no write of the engine having failed); only a Set   *)
(* or a Delete of the pair changes it.                                     *)

C28_PairLifecycle ==
    [][ ( last'.op \in {"Get", "List", "Flush"} /\ ~wrFailed ) =>
            \A c \in Collections, k \in AllKeys :
                Had(c, k) => ( /\ HadIn(content', c, k)
                               /\ JsonEq(content'[c][k], content[c][k]) )
      ]_vars

\* The collection is present and holds no key
EmptyPresent(c) == colExists(content, c) /\ DOMAIN content[c] = {}

(* C29: Collections are never removed, and an absent collection differs    *)
(* from a present one without keys.  On a collection left empty by Delete, *)
(* Get succeeds with null, List succeeds with an empty page and total 0    *)
(* and Delete returns false without error (no file operation failing); on  *)
(* a collection never Set, Get, List and Delete return CollectionNotFound. *)

C29_AbsentVersusEmpty ==
    [][ LET c == Addressed(last'.op, last'.c)
        IN  /\ DOMAIN content \subseteq DOMAIN content'
            /\ ( last'.op \in {"Get", "List", "Delete"} /\ c \notin everSet )
                  => last'.err = "CollectionNotFound"
            /\ ( /\ EmptyPresent(c) /\ ~wrFailed
                 /\ last'.rd = "ok" /\ last'.wr = "ok" )
                  => ( /\ last'.op = "Get" =>
                             ( last'.err = "nil" /\ last'.out = Nil )
                       /\ last'.op = "List" =>
                             ( /\ last'.err = "nil" /\ last'.items = NoItems
                               /\ last'.total = 0 )
                       /\ last'.op = "Delete" =>
                             ( last'.err = "nil" /\ ~last'.deleted ) )
      ]_vars

(* C30: Every collection name in the tree and every key in a collection    *)
(* table is a non-empty string: a Set with an empty key or an empty        *)
(* collection creates no entry under the empty string.                     *)

C30_NamesNonEmpty ==
    \A c \in DOMAIN content :
        /\ c # ""
        /\ \A k \in DOMAIN content[c] : k # <<>>

----------------------------------------------------------------------------
\* The goroutine is inside readFile: past the RLock of Get, before the lookup
InReadFile(t) == th[t].op = "Get" /\ th[t].pc \in {"open", "merge"}

(* C31: Concurrent Gets on a file-backed engine serialize on file I/O: in  *)
(* no reachable state are two Get calls of the engine executing readFile   *)
(* at the same time.                                                       *)

C31_ReloadsSerialize ==
    \A a, b \in Threads : ( a # b /\ InReadFile(a) ) => ~InReadFile(b)

(* C32: A file-backed Get reloads the entire file: after a Get that        *)
(* returns no error the tree in memory holds the collections and keys of   *)
(* the file and no other, each key with the JSON value the file has (no   *)
(* write of the engine having failed).                                     *)

C32_GetReloadsWholeFile ==
    [][ ( last'.op = "Get" /\ last'.err = "nil" /\ ~inMemory /\ ~wrFailed )
        => FileMirrors(content', file') ]_vars

(* C33: List never touches the backing file and leaves the tree unchanged, *)
(* in every persistence mode: what it returns is determined by the tree in *)
(* memory, whatever the file holds.                                        *)

C33_ListIsMemoryOnly ==
    [][ last'.op = "List" =>
            LET r == List(content, last'.c, last'.limit, last'.page)
            IN  /\ content' = content
                /\ file' = file
                /\ last'.err = r.err
                /\ last'.items = r.items
                /\ last'.total = r.total ]_vars

\* A List that succeeded on an engine whose file differs from its tree
C33_Witness ==
    /\ last.op = "List" /\ last.err = "nil" /\ last.total > 0
    /\ ~inMemory /\ file.kind = "tree" /\ ~FileMirrors(content, file)

(* C34: When Get returns an error (CollectionNotFound, or a failure to     *)
(* open, read or parse the backing file, an empty file included), the tree *)
(* and the caller's output value are exactly as they were before the call. *)

C34_FailedGetChangesNothing ==
    [][ ( last'.op = "Get" /\ last'.err \notin {"nil", "panic"} )
        => ( content' = content /\ last'.out = Untouched ) ]_vars

\* A Get on a pair the engine holds, failed by the file
C34_Witness ==
    /\ last.op = "Get" /\ last.err = "io" /\ last.had
    /\ content # EmptyMap

(* C35: A mutation by one engine never drops another engine's persisted    *)
(* documents from the shared file: when engine B, in auto-flush mode, Sets *)
(* (c2,k2) without error, every other pair that the file holds with the    *)
(* value engine A has for it is still in the file afterwards, with the     *)
(* same JSON value, next to (c2,k2).                                       *)

C35_ForeignPairsSurvive ==
    [][ ( /\ last'.op = "Set" /\ last'.eng = "B" /\ last'.err = "nil"
          /\ AutoFlush /\ file.kind = "tree" )
        => /\ HadIn(file'.tree, last'.c, last'.k)
           /\ \A c \in TwoCollections, k \in Keys :
                 ( /\ Had(c, k) /\ InFile(c, k)
                   /\ JsonEq(file.tree[c][k], content[c][k])
                   /\ ~(c = last'.c /\ k = last'.k) )
                 => ( /\ HadIn(file'.tree, c, k)
                      /\ JsonEq(file'.tree[c][k], file.tree[c][k]) ) ]_vars

(* C36: One empty-collection policy for all operations: for every          *)
(* collection argument c, the empty string included, a Set(c,k,v) that     *)
(* returns no error, followed by List(c,0,1), makes the List return no     *)
(* error and a page that contains k.                                       *)

C36_SetThenListSameTable ==
    [][ ( /\ last.op = "Set" /\ last.err = "nil"
          /\ last'.op = "List" /\ last'.c = last.c
          /\ last'.limit = 0 /\ last'.page = 1 )
        => ( last'.err = "nil" /\ last.k \in DOMAIN last'.items ) ]_vars

(* C37: In file-backed auto-flush mode, after a Set(c,k,v) whose file      *)
(* write failed (error returned, memory kept), a Get(c,k) that follows it  *)
(* on the same engine and returns no error yields the JSON value v, not    *)
(* the value the file held before.                                         *)

C37_FailedWriteThenGet ==
    [][ ( /\ AutoFlush
          /\ last.op = "Set" /\ last.err = "io"
          /\ last'.op = "Get" /\ SameTarget(last', last)
          /\ last'.err = "nil" )
        => JsonEq(last'.out, last.v) ]_vars

----------------------------------------------------------------------------
\* The tree of an in-memory engine before its goroutines start
InitialTree ==
    IF everSet = {} THEN EmptyMap
    ELSE Set(EmptyMap, EmptyFile, TRUE, FALSE, "colA", K1, VLoose, "ok").content

\* The call of a goroutine, made alone on the in-memory tree `tree`
Alone(tree, call) ==
    CASE call.op = "Set" ->
            LET r == Set(tree, EmptyFile, TRUE, FALSE, call.c, call.k, call.v, "ok")
            IN  [content |-> r.content, out |-> [NoOutcome EXCEPT !.err = r.err]]
      [] call.op = "Get" ->
            LET r == Get(tree, EmptyFile, TRUE, call.c, call.k, "ok", {})
            IN  [content |-> r.content,
                 out |-> [NoOutcome EXCEPT !.err = r.err, !.out = r.value]]
      [] call.op = "Delete" ->
            LET r == Delete(tree, EmptyFile, TRUE, FALSE, call.c, call.k, "ok")
            IN  [content |-> r.content,
                 out |-> [NoOutcome EXCEPT !.err = r.err, !.deleted = r.deleted]]
      [] call.op = "List" ->
            LET r == List(tree, call.c, 0, 1)
            IN  [content |-> tree,
                 out |-> [NoOutcome EXCEPT !.err = r.err, !.items = r.items,
                                           !.total = r.total]]
      [] OTHER -> [content |-> tree, out |-> NoOutcome]

\* What the goroutine's call returned
Returned(t) ==
    [err |-> th[t].err, out |-> th[t].out, deleted |-> th[t].deleted,
     items |-> th[t].items, total |-> th[t].total]

Orders == {o \in [Threads -> Threads] : \A a, b \in Threads : a # b => o[a] # o[b]}

\* The calls order[i], order[i+1], ... made one after the other from `tree`
\* return what the goroutines got and end in the tree of the engine
RECURSIVE Explains(_, _, _)
Explains(order, i, tree) ==
    IF i > NumThreads
    THEN tree = content
    ELSE LET r == Alone(tree, th[order[i]])
         IN  r.out = Returned(order[i]) /\ Explains(order, i + 1, r.content)

Linearizable == \E order \in Orders : Explains(order, 1, InitialTree)

(* C38: Individual operations are atomic: on an in-memory engine every     *)
(* concurrent execution of Set, Delete, List and Get calls runs to the end *)
(* and, once all calls have returned, the values returned and the final    *)
(* tree are those of the same calls made one after the other in some       *)
(* order.                                                                  *)

C38_CallsAreAtomic ==
    inMemory => ( /\ ~fatal
                  /\ AllReturned => Linearizable )

----------------------------------------------------------------------------
\* ceil(n / limit) for limit > 0
PageCount(n, limit) == (n + limit - 1) \div limit

\* The pages 1..ceil(n/limit) of collection c, listed from the current tree,
\* each with its number
PagesOf(c, limit) ==
    {<<p, List(content, c, limit, p)>> :
        p \in 1..PageCount(Cardinality(DOMAIN content[c]), limit)}

\* The pages of c for the limit are disjoint, in key order, and together
\* hold the collection with its values
PagesPartition(c, limit) ==
    LET pg == PagesOf(c, limit)
    IN  /\ \A x \in pg :
              /\ x[2].err = "nil"
              /\ x[2].total = Cardinality(DOMAIN content[c])
              /\ \A k \in DOMAIN x[2].items : x[2].items[k] = content[c][k]
        /\ \A x, y \in pg :
              x[1] # y[1] => DOMAIN x[2].items \cap DOMAIN y[2].items = {}
        /\ UNION {DOMAIN x[2].items : x \in pg} = DOMAIN content[c]
        /\ \A x, y \in pg :
              y[1] = x[1] + 1 =>
                  \A a \in DOMAIN x[2].items, b \in DOMAIN y[2].items :
                      StrLess(a, b)

(* C39: Pages partition the collection.  For a collection c with n keys    *)
(* and every limit L in 1..20, the pages List(c,L,p), p = 1..ceil(n/L),    *)
(* are pairwise disjoint, their union is c's key set with the stored       *)
(* values, every key of page p sorts before every key of page p+1; and the *)
(* List call just made, repeated on the unmodified collection, returns the *)
(* same page.                                                              *)

C39_PagesPartition ==
    /\ \A c \in ListCollections \cap DOMAIN content :
          \A limit \in 1..MaxListItems : PagesPartition(c, limit)
    /\ last.op = "List" =>
          LET r == List(content, last.c, last.limit, last.page)
          IN  /\ last.err = r.err /\ last.items = r.items
              /\ last.total = r.total

\* The second page of two keys, out of a collection of three or more
C39_Witness ==
    /\ last.op = "List" /\ last.err = "nil" /\ last.limit = 2 /\ last.page = 2
    /\ last.total >= 3
    /\ Cardinality(DOMAIN last.items) >= 1

====
